---- MODULE Spec2Model ----
(***************************************************************************)
(* Boruvka minimum spanning tree of gunrock (algorithms/mst.hxx): the      *)
(* problem state, the bulk phases of enactor_t::loop with one step per     *)
(* thread, and the convergence test of the round controller.               *)
(* A second specification, KSpec, runs the two bulk kernels of              *)
(* cuda/detail/launch_box.hxx one loop step of one thread at a time.        *)
(* Weights are bounded integers; float addition is modelled as integer     *)
(* addition.                                                               *)
(***************************************************************************)
EXTENDS Integers, Sequences, FiniteSets, TLC

(* ---------------------------------------------------------------- bounds *)
MaxV == 3
MaxE == 2
MaxW == 2
MaxK == 3
MaxIter == 4
MaxBlock == 2
MaxGrid == 2
MaxItems == 2
MaxBound == 4

(* std::numeric_limits<weight_t>::max(), above every weight of the model *)
numeric_limits_max == 99

VARIABLES
  G,               \* the input graph: [n, edges], edge id e is edges[e + 1]
  roots,           \* problem_t::roots
  new_roots,       \* problem_t::new_roots
  min_weights,     \* problem_t::min_weights
  min_neighbors,   \* problem_t::min_neighbors
  mst_weight,      \* result_t::mst_weight[0]
  mst_edges,       \* problem_t::mst_edges[0]
  super_vertices,  \* problem_t::super_vertices[0]
  frontiers,       \* enactor frontiers[0], frontiers[1] (sets of edge ids)
  iteration,       \* enactor iteration counter
  pc,              \* position of the round controller
  pending,         \* threads of the running bulk operation that have not run
  exch,            \* add_to_mst: value read from new_roots[dest], per thread
  committed,       \* history: <<iteration, v, elected edge>> of every commit
  sv_start,        \* history: super_vertices[0] when the round began
  kernel           \* the bulk kernel launch of KSpec: configuration, the
                   \* loop variables i and j of every thread, the threads
                   \* that returned, and how often f ran per index

vars == <<G, roots, new_roots, min_weights, min_neighbors, mst_weight,
          mst_edges, super_vertices, frontiers, iteration, pc, pending,
          exch, committed, sv_start, kernel>>

(* ----------------------------------------------------------------- graph *)
Vertices(g) == 0 .. (g.n - 1)
EdgeIds(g) == 0 .. (Len(g.edges) - 1)

(* graph accessors used by the lambdas of loop() *)
get_source_vertex(e) == G.edges[e + 1].src
get_destination_vertex(e) == G.edges[e + 1].dst
get_edge_weight(e) == G.edges[e + 1].w

(* Both directions of every undirected edge <<u, v, w>> *)
Directed(U) ==
  {[src |-> t[1], dst |-> t[2], w |-> t[3]] : t \in U} \cup
  {[src |-> t[2], dst |-> t[1], w |-> t[3]] : t \in U}

Before(x, y) == x.src < y.src \/ (x.src = y.src /\ x.dst < y.dst)

(* The graph of n vertices and undirected weighted edges U, with edge ids  *)
(* in row-major (source, destination) order.                               *)
MkGraph(n, U) ==
  LET D == Directed(U)
  IN [n |-> n,
      edges |-> [i \in 1 .. Cardinality(D) |->
                   CHOOSE x \in D : Cardinality({y \in D : Before(y, x)}) = i - 1]]

Pairs(n) == {p \in (0 .. (n - 1)) \X (0 .. (n - 1)) : p[1] < p[2]}

RECURSIVE Reach(_, _)
Reach(U, S) ==
  LET T == S \cup {t[2] : t \in {x \in U : x[1] \in S}}
                \cup {t[1] : t \in {x \in U : x[2] \in S}}
  IN IF T = S THEN S ELSE Reach(U, T)

Connected(n, U) == Reach(U, {0}) = 0 .. (n - 1)

(* the undirected edges of a weight assignment wt (0: no edge) *)
Weighted(n, wt) == {<<p[1], p[2], wt[p]>> : p \in {q \in Pairs(n) : wt[q] > 0}}

(* every connected graph of at most MaxV vertices and MaxE undirected      *)
(* edges, weights in 1 .. MaxW                                             *)
SmallGraphs ==
  UNION {
    {MkGraph(n, Weighted(n, wt)) :
       wt \in {f \in [Pairs(n) -> 0 .. MaxW] :
                 /\ Cardinality(Weighted(n, f)) <= MaxE
                 /\ Connected(n, Weighted(n, f))}}
    : n \in 1 .. MaxV}

(* the 4-vertex cycle (0,1,1) (1,2,2) (2,3,3) (3,0,4) *)
Cycle4 == MkGraph(4, {<<0, 1, 1>>, <<1, 2, 2>>, <<2, 3, 3>>, <<0, 3, 4>>})

(* a 4-vertex tree with distinct weights, merged in one round *)
Tree4 == MkGraph(4, {<<0, 1, 1>>, <<0, 2, 2>>, <<2, 3, 3>>})

(* a 4-vertex path with distinct weights, merged in two rounds *)
Path4 == MkGraph(4, {<<0, 1, 1>>, <<2, 3, 2>>, <<1, 2, 3>>})

(* the triangle whose three edges tie *)
TiedTriangle == MkGraph(3, {<<0, 1, 1>>, <<1, 2, 1>>, <<0, 2, 1>>})

(* the triangle with distinct weights *)
Triangle == MkGraph(3, {<<0, 1, 1>>, <<1, 2, 2>>, <<0, 2, 3>>})

(* the complete graph on 4 vertices with distinct weights *)
K4 ==
  MkGraph(4, {<<0, 1, 1>>, <<0, 2, 2>>, <<0, 3, 3>>,
              <<1, 2, 4>>, <<1, 3, 5>>, <<2, 3, 6>>})

(* the 4-vertex cycle whose opposite edges tie *)
TiedSquare == MkGraph(4, {<<0, 1, 1>>, <<2, 3, 1>>, <<1, 2, 2>>, <<0, 3, 2>>})

(* two disjoint triangles *)
TwoTriangles ==
  MkGraph(6, {<<0, 1, 1>>, <<1, 2, 2>>, <<0, 2, 3>>,
              <<3, 4, 4>>, <<4, 5, 5>>, <<3, 5, 6>>})

(* star with center 0, leaves 1 .. k, every edge of weight w *)
Star(k, w) == MkGraph(k + 1, {<<0, i, w>> : i \in 1 .. k})

Stars == {Star(k, w) : k \in 1 .. MaxK, w \in 1 .. MaxW}

Graphs ==
  SmallGraphs \cup Stars \cup
  {Cycle4, Tree4, Path4, TiedTriangle, Triangle, K4, TiedSquare, TwoTriangles}

(* ------------------------------------------------------------------ init *)
(* problem_t::init and enactor_t::prepare_frontier *)
(* no kernel of launch_box.hxx is being stepped *)
no_launch ==
  [kind |-> "none", block_size |-> 0, grid_size |-> 0, items_per_thread |-> 0,
   bound |-> 0, i |-> <<>>, j |-> <<>>, done |-> {}, f |-> <<>>]

Init ==
  /\ kernel = no_launch
  /\ G \in Graphs
  /\ roots = [v \in Vertices(G) |-> v]
  /\ new_roots = [v \in Vertices(G) |-> v]
  /\ min_weights = [v \in Vertices(G) |-> numeric_limits_max]
  /\ min_neighbors = [v \in Vertices(G) |-> -1]
  /\ mst_weight = 0
  /\ mst_edges = 0
  /\ super_vertices = G.n
  /\ frontiers = [i \in {0, 1} |-> IF i = 0 THEN EdgeIds(G) ELSE {}]
  /\ iteration = 0
  /\ pc = "is_converged"
  /\ pending = {}
  /\ exch = [v \in Vertices(G) |-> -1]
  /\ committed = {}
  /\ sv_start = G.n

(* the shape of the problem and enactor state *)
TypeOK ==
  /\ roots \in [Vertices(G) -> Vertices(G)]
  /\ new_roots \in [Vertices(G) -> Vertices(G)]
  /\ min_weights \in [Vertices(G) -> 1 .. numeric_limits_max]
  /\ min_neighbors \in [Vertices(G) -> {-1} \cup EdgeIds(G)]
  /\ mst_weight \in Nat
  /\ mst_edges \in Nat
  /\ super_vertices \in Int
  /\ frontiers \in [{0, 1} -> SUBSET EdgeIds(G)]
  /\ frontiers[0] = EdgeIds(G)
  /\ iteration \in 0 .. MaxIter
  /\ pc \in {"is_converged", "get_min_weights", "get_min_neighbors",
             "remove_ties", "remove_dups", "add_to_mst",
             "jump_pointers_parallel", "converged", "hung"}
  /\ pending \subseteq (Vertices(G) \cup EdgeIds(G))
  /\ exch \in [Vertices(G) -> {-1} \cup Vertices(G)]

(* --------------------------------------------------------------- helpers *)
(* mutant: a plain store in place of the atomic min, the last writer wins *)
Min_plain_store(a, b) == b

Min(a, b) == IF a < b THEN a ELSE b
Max(a, b) == IF a > b THEN a ELSE b

(* enactor_t::is_converged *)
is_converged == super_vertices = 1

(* get_min_weights: the filter keeps e iff it lowered the stored minimum *)
get_min_weights_keep(weight, old_weight) == weight < old_weight

(* mutant: every surviving edge competes, whatever its weight *)
get_min_neighbors_match_any(e) == TRUE

(* get_min_neighbors: e competes iff its weight is the component's minimum *)
get_min_neighbors_match(e) ==
  get_edge_weight(e) = min_weights[roots[get_source_vertex(e)]]

(* get_min_neighbors: the filter keeps e iff it raised the stored edge id *)
get_min_neighbors_keep(e, old_val) == old_val < e

(* remove_ties: keep e iff it is the elected edge of its source's component *)
remove_ties_keep(e) == e = min_neighbors[roots[get_source_vertex(e)]]

(* mutant: remove_dups keeps both sides of a reciprocal pair *)
remove_dups_keep_both(e) == TRUE

(* remove_dups: drop the larger-source side of a reciprocal pair *)
remove_dups_keep(e) ==
  LET source == get_source_vertex(e)
      dest == get_destination_vertex(e)
  IN \/ source < dest
     \/ get_destination_vertex(min_neighbors[roots[dest]]) # source
     \/ get_source_vertex(min_neighbors[roots[dest]]) # dest

(* mutant: no reciprocity test, every component with an elected edge commits *)
add_to_mst_commits_always(v) == TRUE

(* mutant: only the smaller-source test, the reciprocity lookups dropped *)
add_to_mst_commits_smaller_only(v) ==
  get_source_vertex(min_neighbors[v]) < get_destination_vertex(min_neighbors[v])

(* add_to_mst: the reciprocity test guarding the commit of vertex v *)
add_to_mst_commits(v) ==
  LET source == get_source_vertex(min_neighbors[v])
      dest == get_destination_vertex(min_neighbors[v])
  IN \/ source < dest
     \/ get_destination_vertex(min_neighbors[roots[dest]]) # source
     \/ get_source_vertex(min_neighbors[roots[dest]]) # dest

(* mutant: one pointer-doubling step instead of the walk to the fixed point *)
jump_target_one_step(r, v) == r[r[v]]

(* jump_pointers_parallel: follow r from u to a fixed point; -1 when the   *)
(* while loop never exits (r has a cycle on the way)                       *)
RECURSIVE Chase(_, _, _)
Chase(r, u, fuel) ==
  IF r[u] = u THEN u
  ELSE IF fuel = 0 THEN -1
  ELSE Chase(r, r[u], fuel - 1)

jump_target(r, v) == Chase(r, r[v], Cardinality(DOMAIN r))

(* the contraction step of loop() on a new_roots array nr: copy into roots, *)
(* jump every vertex into new_roots, copy into roots                        *)
Contraction(nr) == [v \in DOMAIN nr |-> jump_target(nr, v)]

(* filter::execute from frontiers[0] into frontiers[1]: the thread of edge *)
(* e appends e to the output iff the lambda returned true                  *)
filter_execute_copy(fr, e, keep) ==
  IF keep THEN [fr EXCEPT ![1] = @ \cup {e}] ELSE fr

(* filter::execute on frontiers[1] in place: the thread of edge e leaves e *)
(* in the frontier iff the lambda returned true                            *)
filter_execute_inplace(fr, e, keep) ==
  IF keep THEN fr ELSE [fr EXCEPT ![1] = @ \ {e}]

(* --------------------------------------------------------------- actions *)
(* enact(): is_converged() is true, the run returns *)
Converge ==
  /\ pc = "is_converged"
  /\ is_converged
  /\ pc' = "converged"
  /\ UNCHANGED <<kernel, G, roots, new_roots, min_weights, min_neighbors, mst_weight,
                 mst_edges, super_vertices, frontiers, iteration, pending,
                 exch, committed, sv_start>>

(* mutant: the first filter is launched on frontiers[1], the frontier the   *)
(* previous round narrowed                                                 *)
LoopBegin_carries_frontier ==
  /\ pc = "is_converged"
  /\ ~is_converged
  /\ iteration < MaxIter
  /\ min_weights' = [v \in Vertices(G) |-> numeric_limits_max]
  /\ min_neighbors' = [v \in Vertices(G) |-> -1]
  /\ frontiers' = [frontiers EXCEPT ![1] = {}]
  /\ pending' = frontiers[1]
  /\ sv_start' = super_vertices
  /\ pc' = "get_min_weights"
  /\ UNCHANGED <<kernel, G, roots, new_roots, mst_weight, mst_edges, super_vertices,
                 iteration, exch, committed>>

(* loop(): the two fills, then the first filter is launched on frontiers[0] *)
LoopBegin ==
  /\ pc = "is_converged"
  /\ ~is_converged
  /\ iteration < MaxIter
  /\ min_weights' = [v \in Vertices(G) |-> numeric_limits_max]
  /\ min_neighbors' = [v \in Vertices(G) |-> -1]
  /\ frontiers' = [frontiers EXCEPT ![1] = {}]
  /\ pending' = frontiers[0]
  /\ sv_start' = super_vertices
  /\ pc' = "get_min_weights"
  /\ UNCHANGED <<kernel, G, roots, new_roots, mst_weight, mst_edges, super_vertices,
                 iteration, exch, committed>>

(* one thread of the first filter *)
get_min_weights(e) ==
  /\ pc = "get_min_weights"
  /\ e \in pending
  /\ LET source == get_source_vertex(e)
         neighbor == get_destination_vertex(e)
         weight == get_edge_weight(e)
         old_weight == min_weights[roots[source]]
     IN IF roots[source] # roots[neighbor]
        THEN /\ min_weights' =
                  [min_weights EXCEPT ![roots[source]] = Min(old_weight, weight)]
             /\ frontiers' =
                  filter_execute_copy(frontiers, e,
                                      get_min_weights_keep(weight, old_weight))
        ELSE /\ frontiers' = filter_execute_copy(frontiers, e, FALSE)
             /\ UNCHANGED min_weights
  /\ pending' = pending \ {e}
  /\ UNCHANGED <<kernel, G, roots, new_roots, min_neighbors, mst_weight, mst_edges,
                 super_vertices, iteration, pc, exch, committed, sv_start>>

(* barrier, then the second filter is launched on frontiers[1] in place *)
Launch_get_min_neighbors ==
  /\ pc = "get_min_weights"
  /\ pending = {}
  /\ pending' = frontiers[1]
  /\ pc' = "get_min_neighbors"
  /\ UNCHANGED <<kernel, G, roots, new_roots, min_weights, min_neighbors, mst_weight,
                 mst_edges, super_vertices, frontiers, iteration, exch,
                 committed, sv_start>>

(* one thread of the second filter *)
get_min_neighbors(e) ==
  /\ pc = "get_min_neighbors"
  /\ e \in pending
  /\ LET source == get_source_vertex(e)
         old_val == min_neighbors[roots[source]]
     IN IF get_min_neighbors_match(e)
        THEN /\ min_neighbors' =
                  [min_neighbors EXCEPT ![roots[source]] = Max(old_val, e)]
             /\ frontiers' =
                  filter_execute_inplace(frontiers, e,
                                         get_min_neighbors_keep(e, old_val))
        ELSE /\ frontiers' = filter_execute_inplace(frontiers, e, FALSE)
             /\ UNCHANGED min_neighbors
  /\ pending' = pending \ {e}
  /\ UNCHANGED <<kernel, G, roots, new_roots, min_weights, mst_weight, mst_edges,
                 super_vertices, iteration, pc, exch, committed, sv_start>>

Launch_remove_ties ==
  /\ pc = "get_min_neighbors"
  /\ pending = {}
  /\ pending' = frontiers[1]
  /\ pc' = "remove_ties"
  /\ UNCHANGED <<kernel, G, roots, new_roots, min_weights, min_neighbors, mst_weight,
                 mst_edges, super_vertices, frontiers, iteration, exch,
                 committed, sv_start>>

(* one thread of the third filter *)
remove_ties(e) ==
  /\ pc = "remove_ties"
  /\ e \in pending
  /\ frontiers' = filter_execute_inplace(frontiers, e, remove_ties_keep(e))
  /\ pending' = pending \ {e}
  /\ UNCHANGED <<kernel, G, roots, new_roots, min_weights, min_neighbors, mst_weight,
                 mst_edges, super_vertices, iteration, pc, exch, committed,
                 sv_start>>

Launch_remove_dups ==
  /\ pc = "remove_ties"
  /\ pending = {}
  /\ pending' = frontiers[1]
  /\ pc' = "remove_dups"
  /\ UNCHANGED <<kernel, G, roots, new_roots, min_weights, min_neighbors, mst_weight,
                 mst_edges, super_vertices, frontiers, iteration, exch,
                 committed, sv_start>>

(* one thread of the fourth filter *)
remove_dups(e) ==
  /\ pc = "remove_dups"
  /\ e \in pending
  /\ frontiers' = filter_execute_inplace(frontiers, e, remove_dups_keep(e))
  /\ pending' = pending \ {e}
  /\ UNCHANGED <<kernel, G, roots, new_roots, min_weights, min_neighbors, mst_weight,
                 mst_edges, super_vertices, iteration, pc, exch, committed,
                 sv_start>>

(* barrier, then the parallel_for over every vertex is launched *)
Launch_add_to_mst ==
  /\ pc = "remove_dups"
  /\ pending = {}
  /\ pending' = Vertices(G)
  /\ pc' = "add_to_mst"
  /\ UNCHANGED <<kernel, G, roots, new_roots, min_weights, min_neighbors, mst_weight,
                 mst_edges, super_vertices, frontiers, iteration, exch,
                 committed, sv_start>>

(* mutant: the live-component counter is not decremented *)
add_to_mst_adds_no_decrement(weight) ==
  /\ mst_weight' = mst_weight + weight
  /\ mst_edges' = mst_edges + 1
  /\ super_vertices' = super_vertices

(* add_to_mst: the three atomic adds of a commit *)
add_to_mst_adds(weight) ==
  /\ mst_weight' = mst_weight + weight
  /\ mst_edges' = mst_edges + 1
  /\ super_vertices' = super_vertices - 1

(* add_to_mst of thread v up to the read of new_roots[dest]: the guard, the *)
(* three atomic adds, and the evaluation of atomicExch's second argument    *)
add_to_mst(v) ==
  /\ pc = "add_to_mst"
  /\ v \in pending
  /\ pending' = pending \ {v}
  /\ IF min_weights[v] # numeric_limits_max /\ add_to_mst_commits(v)
     THEN /\ add_to_mst_adds(min_weights[v])
          /\ exch' = [exch EXCEPT
                        ![v] = new_roots[get_destination_vertex(min_neighbors[v])]]
          /\ committed' = committed \cup {<<iteration, v, min_neighbors[v]>>}
     ELSE UNCHANGED <<mst_weight, mst_edges, super_vertices, exch, committed>>
  /\ UNCHANGED <<kernel, G, roots, new_roots, min_weights, min_neighbors, frontiers,
                 iteration, pc, sv_start>>

(* add_to_mst of thread v: atomicExch stores the value read into new_roots[v] *)
add_to_mst_exch(v) ==
  /\ pc = "add_to_mst"
  /\ exch[v] # -1
  /\ new_roots' = [new_roots EXCEPT ![v] = exch[v]]
  /\ exch' = [exch EXCEPT ![v] = -1]
  /\ UNCHANGED <<kernel, G, roots, min_weights, min_neighbors, mst_weight, mst_edges,
                 super_vertices, frontiers, iteration, pc, pending, committed,
                 sv_start>>

(* barrier, copy_n(new_roots -> roots), then the jump kernel is launched *)
Launch_jump_pointers_parallel ==
  /\ pc = "add_to_mst"
  /\ pending = {}
  /\ \A v \in Vertices(G) : exch[v] = -1
  /\ roots' = new_roots
  /\ pending' = Vertices(G)
  /\ pc' = "jump_pointers_parallel"
  /\ UNCHANGED <<kernel, G, new_roots, min_weights, min_neighbors, mst_weight,
                 mst_edges, super_vertices, frontiers, iteration, exch,
                 committed, sv_start>>

(* one thread of the jump kernel whose while loop exits *)
jump_pointers_parallel(v) ==
  /\ pc = "jump_pointers_parallel"
  /\ v \in pending
  /\ jump_target(roots, v) # -1
  /\ new_roots' = [new_roots EXCEPT ![v] = jump_target(roots, v)]
  /\ pending' = pending \ {v}
  /\ UNCHANGED <<kernel, G, roots, min_weights, min_neighbors, mst_weight, mst_edges,
                 super_vertices, frontiers, iteration, pc, exch, committed,
                 sv_start>>

(* one thread of the jump kernel whose while loop never exits: roots has a *)
(* cycle, the kernel does not return                                       *)
jump_pointers_spin(v) ==
  /\ pc = "jump_pointers_parallel"
  /\ v \in pending
  /\ jump_target(roots, v) = -1
  /\ pc' = "hung"
  /\ UNCHANGED <<kernel, G, roots, new_roots, min_weights, min_neighbors, mst_weight,
                 mst_edges, super_vertices, frontiers, iteration, pending,
                 exch, committed, sv_start>>

(* barrier, copy_n(new_roots -> roots); loop() returns and enact() counts *)
LoopEnd ==
  /\ pc = "jump_pointers_parallel"
  /\ pending = {}
  /\ roots' = new_roots
  /\ iteration' = iteration + 1
  /\ pc' = "is_converged"
  /\ UNCHANGED <<kernel, G, new_roots, min_weights, min_neighbors, mst_weight,
                 mst_edges, super_vertices, frontiers, pending, exch,
                 committed, sv_start>>

Next ==
  \/ Converge
  \/ LoopBegin
  \/ \E e \in pending : get_min_weights(e)
  \/ Launch_get_min_neighbors
  \/ \E e \in pending : get_min_neighbors(e)
  \/ Launch_remove_ties
  \/ \E e \in pending : remove_ties(e)
  \/ Launch_remove_dups
  \/ \E e \in pending : remove_dups(e)
  \/ Launch_add_to_mst
  \/ \E v \in pending : add_to_mst(v)
  \/ \E v \in Vertices(G) : add_to_mst_exch(v)
  \/ Launch_jump_pointers_parallel
  \/ \E v \in pending : jump_pointers_parallel(v)
  \/ \E v \in pending : jump_pointers_spin(v)
  \/ LoopEnd

Spec == Init /\ [][Next]_vars

(* ------------------------------------------- the kernels of launch_box.hxx *)
(* const int stride = cuda::block::size::x() * cuda::grid::size::x() *)
stride == kernel.block_size * kernel.grid_size

(* the global thread ids of the launch *)
Threads == 0 .. (stride - 1)

(* the indices f can be handed within the bounds *)
Indices == 0 .. (MaxBound + MaxBlock * MaxGrid * MaxItems)

(* a kernel has been launched over [0, bound): every thread holds its      *)
(* global id in i, f has not run; the problem state is that of init on a   *)
(* fixed graph and does not change                                         *)
KInit ==
  /\ \E kind \in {"blocked_strided_kernel", "strided_kernel"},
        b \in 1 .. MaxBlock, g \in 1 .. MaxGrid,
        items \in 1 .. MaxItems, n \in 0 .. MaxBound :
       /\ kind = "strided_kernel" => items = 1
       /\ kernel = [kind |-> kind, block_size |-> b, grid_size |-> g,
                    items_per_thread |-> items, bound |-> n,
                    i |-> [t \in 0 .. (b * g - 1) |-> t],
                    j |-> [t \in 0 .. (b * g - 1) |-> 0],
                    done |-> {},
                    f |-> [x \in Indices |-> 0]]
  /\ G = Triangle
  /\ roots = [v \in Vertices(G) |-> v]
  /\ new_roots = [v \in Vertices(G) |-> v]
  /\ min_weights = [v \in Vertices(G) |-> numeric_limits_max]
  /\ min_neighbors = [v \in Vertices(G) |-> -1]
  /\ mst_weight = 0
  /\ mst_edges = 0
  /\ super_vertices = G.n
  /\ frontiers = [x \in {0, 1} |-> IF x = 0 THEN EdgeIds(G) ELSE {}]
  /\ iteration = 0
  /\ pc = "is_converged"
  /\ pending = {}
  /\ exch = [v \in Vertices(G) |-> -1]
  /\ committed = {}
  /\ sv_start = G.n

(* one loop step of thread t of blocked_strided_kernel: the outer bound    *)
(* check fails and the thread returns; or the inner loop calls             *)
(* f(i + stride * j) and increments j; or the inner loop is over and the   *)
(* outer loop adds stride * items_per_thread to i                          *)
blocked_strided_kernel(t) ==
  /\ kernel.kind = "blocked_strided_kernel"
  /\ t \in Threads \ kernel.done
  /\ kernel' =
       IF kernel.i[t] < kernel.bound
       THEN IF kernel.j[t] < kernel.items_per_thread
            THEN [kernel EXCEPT !.f[kernel.i[t] + stride * kernel.j[t]] = @ + 1,
                                !.j[t] = @ + 1]
            ELSE [kernel EXCEPT !.i[t] = @ + stride * kernel.items_per_thread,
                                !.j[t] = 0]
       ELSE [kernel EXCEPT !.done = @ \cup {t}]
  /\ UNCHANGED <<G, roots, new_roots, min_weights, min_neighbors, mst_weight,
                 mst_edges, super_vertices, frontiers, iteration, pc, pending,
                 exch, committed, sv_start>>

(* one loop step of thread t of strided_kernel: the bound check fails and  *)
(* the thread returns, or it calls f(i) and adds stride to i               *)
strided_kernel(t) ==
  /\ kernel.kind = "strided_kernel"
  /\ t \in Threads \ kernel.done
  /\ kernel' =
       IF kernel.i[t] < kernel.bound
       THEN [kernel EXCEPT !.f[kernel.i[t]] = @ + 1,
                           !.i[t] = @ + stride]
       ELSE [kernel EXCEPT !.done = @ \cup {t}]
  /\ UNCHANGED <<G, roots, new_roots, min_weights, min_neighbors, mst_weight,
                 mst_edges, super_vertices, frontiers, iteration, pc, pending,
                 exch, committed, sv_start>>

KNext ==
  \/ \E t \in Threads : blocked_strided_kernel(t)
  \/ \E t \in Threads : strided_kernel(t)

KSpec == KInit /\ [][KNext]_vars

(* ------------------------------------------------- notions of the claims *)
UndirectedOf(g) ==
  {<<g.edges[i].src, g.edges[i].dst, g.edges[i].w>> : i \in 1 .. Len(g.edges)}

IsConnected(g) == Reach(UndirectedOf(g), {0}) = Vertices(g)

(* the undirected edges have pairwise distinct weights *)
DistinctWeights(g) ==
  \A i, j \in 1 .. Len(g.edges) :
    g.edges[i].w = g.edges[j].w =>
      {g.edges[i].src, g.edges[i].dst} = {g.edges[j].src, g.edges[j].dst}

(* sequential reference: Prim's algorithm from vertex 0 *)
RECURSIVE Prim(_, _)
Prim(g, S) ==
  LET X == {i \in 1 .. Len(g.edges) : g.edges[i].src \in S /\ g.edges[i].dst \notin S}
  IN IF X = {} THEN 0
     ELSE LET m == CHOOSE i \in X : \A j \in X : g.edges[i].w <= g.edges[j].w
          IN g.edges[m].w + Prim(g, S \cup {g.edges[m].dst})

ReferenceMstWeight(g) == Prim(g, {0})

RECURSIVE Pow2(_)
Pow2(k) == IF k = 0 THEN 1 ELSE 2 * Pow2(k - 1)

(* ceil(log2(n)) for n >= 1 *)
Log2Ceil(n) == CHOOSE k \in 0 .. n : Pow2(k) >= n /\ (k = 0 \/ Pow2(k - 1) < n)

(* the round boundary: loop() has returned, is_converged() is evaluated next *)
AtRoundBoundary == pc = "is_converged"

(* ---------------------------------------------------------------- claims *)

(* C1: for every connected graph, ties included, and every thread order,   *)
(* the run reaches convergence (no kernel spins forever, the component     *)
(* counter does not pass below 1, after which super_vertices[0] == 1 can   *)
(* never hold) and the weight reported at convergence is the weight of a   *)
(* minimum spanning tree computed by the sequential reference.             *)
C1_ReferenceWeightAllGraphs ==
  IsConnected(G) =>
    /\ pc # "hung"
    /\ super_vertices >= 1
    /\ (pc = "converged" => mst_weight = ReferenceMstWeight(G))

(* C2: for every connected graph with pairwise distinct weights, the       *)
(* weight at convergence is the weight of the minimum spanning tree; the   *)
(* 4-vertex cycle yields 6.                                                *)
C2_DistinctWeightsReference ==
  /\ (IsConnected(G) /\ DistinctWeights(G) /\ pc = "converged")
       => mst_weight = ReferenceMstWeight(G)
  /\ (G = Cycle4 /\ pc = "converged") => mst_weight = 6

C2_Witness == G = Cycle4 /\ pc = "converged" /\ mst_weight = 6

(* C3: for every connected graph with pairwise distinct weights the round  *)
(* controller is converged after at most ceil(log2(V)) rounds (2 for the   *)
(* 4-vertex cycle), no kernel spins forever, and until convergence some    *)
(* step is always enabled.                                                 *)
C3_LogRounds ==
  (IsConnected(G) /\ DistinctWeights(G)) =>
    /\ pc # "hung"
    /\ iteration <= Log2Ceil(G.n)
    /\ (AtRoundBoundary /\ iteration = Log2Ceil(G.n)) => is_converged
    /\ pc # "converged" => ENABLED Next

C3_Witness == G = Path4 /\ pc = "converged" /\ iteration = 2

(* edges leaving component c, and those of minimum weight among them *)
OutEdges(c) ==
  {e \in EdgeIds(G) :
     roots[get_source_vertex(e)] = c /\ roots[get_destination_vertex(e)] # c}

MinOutEdges(c) ==
  {e \in OutEdges(c) : \A f \in OutEdges(c) : get_edge_weight(e) <= get_edge_weight(f)}

SetMax(S) == CHOOSE x \in S : \A y \in S : y <= x

(* C4: once relaxation and neighbor selection are complete, a component    *)
(* whose minimum outgoing weight is attained by two or more edges holds    *)
(* the tied edge of highest id in min_neighbors, and a commit of that      *)
(* component commits that edge, whatever the thread order.                 *)
C4_TieBreakHighestId ==
  pc \in {"remove_ties", "remove_dups", "add_to_mst"} =>
    \A c \in Vertices(G) :
      Cardinality(MinOutEdges(c)) >= 2 =>
        /\ min_neighbors[c] = SetMax(MinOutEdges(c))
        /\ \A t \in committed :
             (t[1] = iteration /\ t[2] = c) => t[3] = SetMax(MinOutEdges(c))

(* C5: the graph of two disjoint triangles never reaches converged with a  *)
(* partial weight, and once the round count exceeds the safety bound       *)
(* ceil(log2(V)) the run has reported GraphNotConnectedError instead of    *)
(* executing further rounds.                                               *)
C5_DisconnectedReported ==
  G = TwoTriangles =>
    /\ pc # "converged"
    /\ iteration > Log2Ceil(G.n) => pc = "GraphNotConnectedError"

(* C6: at every round boundary mst_edges[0] + super_vertices[0] equals     *)
(* n_vertices, and a connected graph that has converged has committed      *)
(* n_vertices - 1 edges.                                                   *)
C6_EdgesPlusComponents ==
  /\ AtRoundBoundary => mst_edges + super_vertices = G.n
  /\ (pc = "converged" /\ IsConnected(G)) => mst_edges = G.n - 1

C6_Witness == pc = "converged" /\ G.n = 4 /\ mst_edges = 3 /\ iteration = 2

(* C7: for a connected graph super_vertices[0] never exceeds its value at  *)
(* the start of the round, and at the end of every executed round it is    *)
(* strictly smaller than at the start of that round.                       *)
C7_StrictProgress ==
  IsConnected(G) =>
    /\ super_vertices <= sv_start
    /\ (AtRoundBoundary /\ iteration > 0) => super_vertices < sv_start

(* the pair of components joined by edge e, under the roots of this round *)
Joined(e) == {roots[get_source_vertex(e)], roots[get_destination_vertex(e)]}

(* C8: in the commit phase of any round no two commits join the same pair  *)
(* of components.                                                          *)
C8_NoDoubleCommit ==
  pc = "add_to_mst" =>
    \A s, t \in committed :
      (s[1] = iteration /\ t[1] = iteration /\ s # t) => Joined(s[3]) # Joined(t[3])

(* star graphs: center 0, leaves 1 .. n - 1, one common weight *)
IsStar(g) == g.n >= 2 /\ g = Star(g.n - 1, g.edges[1].w)

CommittedUndirected ==
  {{get_source_vertex(t[3]), get_destination_vertex(t[3])} : t \in committed}

(* C9: a star with k tied edges of weight w converges after its first      *)
(* round with mst_weight k * w, mst_edges k, and the committed undirected  *)
(* edges are the k edges of the star in every execution.                   *)
C9_StarWithTies ==
  IsStar(G) =>
    /\ pc # "hung"
    /\ (AtRoundBoundary /\ iteration >= 1) => is_converged
    /\ pc = "converged" =>
         /\ mst_weight = (G.n - 1) * G.edges[1].w
         /\ mst_edges = G.n - 1
         /\ CommittedUndirected = {{0, i} : i \in 1 .. (G.n - 1)}

C9_Witness ==
  /\ G = Star(3, 2)
  /\ pc = "converged"
  /\ mst_weight = 6
  /\ mst_edges = 3
  /\ <<0, 0, 0>> \in committed

(* no pointer cycle other than self-loops *)
Acyclic(r) == \A v \in DOMAIN r : Chase(r, v, Cardinality(DOMAIN r)) # -1

(* every thread of add_to_mst has finished *)
CommitPhaseDone ==
  pc = "add_to_mst" /\ pending = {} /\ \A v \in Vertices(G) : exch[v] = -1

(* C10: on every acyclic new_roots array a commit phase produces, a second *)
(* contraction leaves what the first produced; at every round boundary     *)
(* roots is what one more contraction would produce.                       *)
C10_ContractionIdempotent ==
  /\ (CommitPhaseDone /\ Acyclic(new_roots)) =>
       Contraction(Contraction(new_roots)) = Contraction(new_roots)
  /\ AtRoundBoundary => (new_roots = roots /\ Contraction(roots) = roots)

C10_Witness ==
  /\ CommitPhaseDone
  /\ G = Tree4
  /\ new_roots = (0 :> 1 @@ 1 :> 1 @@ 2 :> 0 @@ 3 :> 2)

(* C11: for a connected graph with pairwise distinct weights, whatever the *)
(* interleaving of the reads of new_roots[dest] and the exchanges into     *)
(* new_roots[v], new_roots has no cycle other than self-loops when the     *)
(* commit phase ends, and no thread of the jump kernel spins.              *)
C11_CommitRaceNoCycle ==
  (IsConnected(G) /\ DistinctWeights(G)) =>
    /\ CommitPhaseDone => Acyclic(new_roots)
    /\ pc = "jump_pointers_parallel" => Acyclic(roots)
    /\ pc # "hung"

(* the read of new_roots[2] by thread 3 came before the write of thread 2 *)
C11_Witness ==
  /\ CommitPhaseDone
  /\ G = Cycle4
  /\ new_roots = (0 :> 1 @@ 1 :> 1 @@ 2 :> 1 @@ 3 :> 2)

(* the relaxation phase of the current round has completed and the arrays  *)
(* it wrote have not been reset yet                                        *)
RelaxationDone ==
  \/ pc = "get_min_weights" /\ pending = {}
  \/ pc \in {"get_min_neighbors", "remove_ties", "remove_dups", "add_to_mst"}

SetMin(S) == CHOOSE x \in S : \A y \in S : x <= y

(* C12: after the relaxation phase of any round, min_weights[c] of every   *)
(* component root c is the minimum weight over all edges of the graph from *)
(* component c to another component, the sentinel iff there is none, and   *)
(* the sentinel at every index that is not a root.                         *)
C12_RelaxationTrueMinimum ==
  RelaxationDone =>
    \A c \in Vertices(G) :
      IF roots[c] = c /\ OutEdges(c) # {}
      THEN min_weights[c] = SetMin({get_edge_weight(e) : e \in OutEdges(c)})
      ELSE min_weights[c] = numeric_limits_max

(* a later round: the component {0, 1} of Path4 has one outgoing edge, of  *)
(* weight 3, and vertex 0 is not a root                                    *)
C12_Witness ==
  /\ G = Path4
  /\ iteration = 1
  /\ pc = "get_min_neighbors"
  /\ roots[0] = 1
  /\ min_weights[1] = 3
  /\ min_weights[0] = numeric_limits_max

(* the neighbor-selection phase of the current round has completed *)
SelectionDone ==
  \/ pc = "get_min_neighbors" /\ pending = {}
  \/ pc \in {"remove_ties", "remove_dups", "add_to_mst"}

(* C13: after the neighbor-selection phase of any round, for every         *)
(* component root c, min_neighbors[c] is set iff min_weights[c] is not the *)
(* sentinel, and when set it is the id of an edge from component c to      *)
(* another component whose weight equals min_weights[c].                   *)
C13_OneValidElectedEdge ==
  SelectionDone =>
    \A c \in Vertices(G) :
      roots[c] = c =>
        /\ min_neighbors[c] # -1 <=> min_weights[c] # numeric_limits_max
        /\ min_neighbors[c] # -1 =>
             /\ min_neighbors[c] \in OutEdges(c)
             /\ get_edge_weight(min_neighbors[c]) = min_weights[c]

(* a later round: the component {0, 1} of Path4 elects the edge 1 -> 2 *)
C13_Witness ==
  /\ G = Path4
  /\ iteration = 1
  /\ pc = "remove_ties"
  /\ min_neighbors[roots[0]] # -1
  /\ get_source_vertex(min_neighbors[roots[0]]) = 1
  /\ get_destination_vertex(min_neighbors[roots[0]]) = 2

(* the round has started (or is about to) and no commit thread has run yet *)
BeforeCommitPhase ==
  pc \in {"is_converged", "get_min_weights", "get_min_neighbors",
          "remove_ties", "remove_dups"}

(* C14: at the start of every round, after init and after each round's     *)
(* contraction and second copy-back, and in every phase up to the commit   *)
(* phase, roots[roots[v]] = roots[v] and new_roots[v] = roots[v] for every *)
(* vertex v.                                                               *)
C14_FlatForestAtRoundStart ==
  BeforeCommitPhase =>
    \A v \in Vertices(G) :
      /\ roots[v] \in Vertices(G)
      /\ roots[roots[v]] = roots[v]
      /\ new_roots[v] = roots[v]

(* the chain 3 -> 2 -> 0 -> 1 of Tree4's first commit phase is collapsed *)
C14_Witness ==
  /\ G = Tree4
  /\ iteration = 1
  /\ pc = "is_converged"
  /\ \A v \in Vertices(G) : roots[v] = 1 /\ new_roots[v] = 1

(* the step that launches the relaxation filter of a round *)
RelaxationLaunched == pc = "is_converged" /\ pc' = "get_min_weights"

(* C15 as stated: the input of the relaxation phase of round k+1 is the    *)
(* narrowed frontier that the filters of round k left, and no full edge    *)
(* set is supplied to a later round.                                       *)
C15_FrontierCarriedAcrossRounds ==
  [][(RelaxationLaunched /\ iteration >= 1) =>
       (pending' = frontiers[1] /\ pending' # EdgeIds(G))]_vars

(* C15 amended: the input of the relaxation phase of every round, the      *)
(* first and the later ones, is frontiers[0], which holds every edge id of *)
(* the graph; the frontier narrowed by the previous round is frontiers[1]  *)
(* and is not read by the relaxation phase.                                *)
C15_FullFrontierEveryRound ==
  [][RelaxationLaunched =>
       (pending' = EdgeIds(G) /\ frontiers'[0] = EdgeIds(G))]_vars

(* the second round of Path4 starts with all six directed edges *)
C15_Witness ==
  /\ G = Path4
  /\ iteration = 1
  /\ pc = "get_min_weights"
  /\ pending = EdgeIds(G)
  /\ Cardinality(pending) = 6

(* the endpoints of the elected edge of every commit so far *)
CommittedPairs ==
  {<<get_source_vertex(t[3]), get_destination_vertex(t[3])>> : t \in committed}

(* the vertices joined to v by committed edges *)
CommittedComponent(v) == Reach(CommittedPairs, {v})

(* C16: for a connected graph with pairwise distinct weights, at every     *)
(* round boundary the edges committed so far, one per commit, are acyclic  *)
(* (as many commits as vertices minus the components they span), and two   *)
(* vertices have the same root iff committed edges connect them.           *)
C16_CommittedForestTracksRoots ==
  (IsConnected(G) /\ DistinctWeights(G) /\ AtRoundBoundary) =>
    /\ Cardinality(committed) +
         Cardinality({CommittedComponent(v) : v \in Vertices(G)}) = G.n
    /\ \A u, v \in Vertices(G) :
         roots[u] = roots[v] <=> v \in CommittedComponent(u)

(* after the first round of Path4 two edges are committed, two trees *)
C16_Witness ==
  /\ G = Path4
  /\ AtRoundBoundary
  /\ iteration = 1
  /\ Cardinality(committed) = 2
  /\ roots[0] = roots[1]
  /\ roots[2] = roots[3]
  /\ roots[1] # roots[2]

(* the vertices that are their own root *)
RootVertices == {v \in Vertices(G) : roots[v] = v}

(* C17: for every symmetric input graph, connected or not, with or without *)
(* tied weights, at every round boundary that is reached super_vertices[0] *)
(* equals the number of vertices v with roots[v] = v, and is at least 1.   *)
C17_CounterMatchesComponents ==
  AtRoundBoundary =>
    /\ super_vertices = Cardinality(RootVertices)
    /\ super_vertices >= 1

(* ---- one schedule of loop(), as a function of the state at round start:  *)
(* every thread of a phase runs to completion in turn and every commit      *)
(* thread reads new_roots[dest] before any exchange                         *)

(* edges leaving the component of root c under the root array r *)
SeqOutEdges(r, c) ==
  {e \in EdgeIds(G) :
     r[get_source_vertex(e)] = c /\ r[get_destination_vertex(e)] # c}

(* min_weights[c] after the relaxation phase *)
SeqMinWeight(r, c) ==
  IF r[c] = c /\ SeqOutEdges(r, c) # {}
  THEN SetMin({get_edge_weight(e) : e \in SeqOutEdges(r, c)})
  ELSE numeric_limits_max

(* min_neighbors[c] after the selection phase: the atomic max over the     *)
(* edges whose weight equals min_weights[c]                                *)
SeqMinNeighbor(r, c) ==
  IF SeqMinWeight(r, c) = numeric_limits_max THEN -1
  ELSE SetMax({e \in SeqOutEdges(r, c) : get_edge_weight(e) = SeqMinWeight(r, c)})

(* the guard of add_to_mst for vertex v *)
SeqCommits(r, v) ==
  /\ SeqMinWeight(r, v) # numeric_limits_max
  /\ LET source == get_source_vertex(SeqMinNeighbor(r, v))
         dest == get_destination_vertex(SeqMinNeighbor(r, v))
     IN \/ source < dest
        \/ get_destination_vertex(SeqMinNeighbor(r, r[dest])) # source
        \/ get_source_vertex(SeqMinNeighbor(r, r[dest])) # dest

(* new_roots after the commit phase when every read precedes every write *)
SeqNewRoots(r) ==
  [v \in DOMAIN r |->
     IF SeqCommits(r, v)
     THEN r[get_destination_vertex(SeqMinNeighbor(r, v))]
     ELSE r[v]]

(* the state at the round boundary after one round from the boundary s *)
SeqRound(s) ==
  LET C == {v \in DOMAIN s.roots : SeqCommits(s.roots, v)}
      W == [v \in DOMAIN s.roots |->
              IF v \in C THEN SeqMinWeight(s.roots, v) ELSE 0]
      Sum[k \in 0 .. G.n] == IF k = 0 THEN 0 ELSE Sum[k - 1] + W[k - 1]
  IN [roots |-> Contraction(SeqNewRoots(s.roots)),
      mst_weight |-> s.mst_weight + Sum[G.n],
      mst_edges |-> s.mst_edges + Cardinality(C),
      super_vertices |-> s.super_vertices - Cardinality(C)]

(* the state at the round boundary after k rounds from init *)
RECURSIVE SeqRun(_)
SeqRun(k) ==
  IF k = 0
  THEN [roots |-> [v \in Vertices(G) |-> v], mst_weight |-> 0,
        mst_edges |-> 0, super_vertices |-> G.n]
  ELSE SeqRound(SeqRun(k - 1))

(* C18: for a connected graph with pairwise distinct weights every         *)
(* execution ends each round with the roots, mst_weight, mst_edges and     *)
(* super_vertices of the one schedule above, so any two executions agree;  *)
(* whatever the order of the reads of new_roots[dest] and the exchanges,   *)
(* the new_roots array copied into roots contracts to the same roots.      *)
C18_ScheduleIndependent ==
  (IsConnected(G) /\ DistinctWeights(G)) =>
    /\ AtRoundBoundary =>
         /\ roots = SeqRun(iteration).roots
         /\ mst_weight = SeqRun(iteration).mst_weight
         /\ mst_edges = SeqRun(iteration).mst_edges
         /\ super_vertices = SeqRun(iteration).super_vertices
    /\ (pc = "jump_pointers_parallel" /\ pending = Vertices(G)) =>
         Contraction(roots) = SeqRun(iteration + 1).roots

(* thread 3 read new_roots[2] after the exchange of thread 2: the array    *)
(* differs from the one of the schedule above, the contraction does not    *)
C18_Witness ==
  /\ G = Cycle4
  /\ pc = "jump_pointers_parallel"
  /\ pending = Vertices(G)
  /\ roots = (0 :> 1 @@ 1 :> 1 @@ 2 :> 1 @@ 3 :> 1)
  /\ roots # SeqNewRoots(SeqRun(iteration).roots)

(* the remove_ties and remove_dups filters of the current round have both  *)
(* completed                                                               *)
FiltersDone ==
  \/ pc = "remove_dups" /\ pending = {}
  \/ pc = "add_to_mst"

(* the commits of the current round, one per committing thread *)
CommitsThisRound == {t \in committed : t[1] = iteration}

(* C19: for a connected graph with pairwise distinct weights, in every     *)
(* round the edge ids left in the output frontier by remove_ties and       *)
(* remove_dups are exactly the elected edges of the vertices that pass the *)
(* guard of add_to_mst, and when the commit phase ends they are the        *)
(* elected edges of the vertices that committed, as many as commits.       *)
C19_GuardsAgree ==
  (IsConnected(G) /\ DistinctWeights(G)) =>
    /\ FiltersDone =>
         frontiers[1] =
           {min_neighbors[v] :
              v \in {u \in Vertices(G) :
                       /\ min_weights[u] # numeric_limits_max
                       /\ add_to_mst_commits(u)}}
    /\ CommitPhaseDone =>
         /\ frontiers[1] = {t[3] : t \in CommitsThisRound}
         /\ Cardinality(frontiers[1]) = Cardinality(CommitsThisRound)

(* second round of Path4: both components elect the edge between 1 and 2,  *)
(* one direction survives the filters and one component commits            *)
C19_Witness ==
  /\ G = Path4
  /\ iteration = 1
  /\ CommitPhaseDone
  /\ Cardinality(frontiers[1]) = 1
  /\ Cardinality(CommitsThisRound) = 1
  /\ \A e \in frontiers[1] :
       get_source_vertex(e) = 1 /\ get_destination_vertex(e) = 2

(* every thread of the launched kernel has returned *)
KernelDone == kernel.done = Threads

(* C20: for every block and grid size, every items_per_thread >= 1 and     *)
(* every bound, the threads of blocked_strided_kernel never invoke f with  *)
(* an index >= bound, never invoke it twice for an index, and have invoked *)
(* it exactly once for each index in [0, bound) when all have returned.    *)
C20_BlockedKernelCoversDomain ==
  kernel.kind = "blocked_strided_kernel" =>
    /\ \A x \in Indices : x >= kernel.bound => kernel.f[x] = 0
    /\ \A x \in Indices : kernel.f[x] <= 1
    /\ KernelDone => \A x \in Indices : x < kernel.bound => kernel.f[x] = 1

====
